---- MODULE Spec2Model ----
(***************************************************************************)
(* Model of src/main/resources/generate_calibration_bmp.py: the calibration*)
(* raster encoder.  create_calibration_bmp composes six colour boxes       *)
(* (2 rows x 3 columns) into a top-down buffer, re-emits the buffer        *)
(* bottom-up with row padding, and writes a 24-bit bitmap file.            *)
(*                                                                         *)
(* The module globals WIDTH, HEIGHT and COLOR_INDICES are read by the      *)
(* function at call time; a run of the model fixes them in the variables   *)
(* width, height and color_indices.  Byte buffers are functions over       *)
(* 0..n-1, as the code's bytearrays are; the file on disk is a sequence.   *)
(***************************************************************************)
EXTENDS Integers, Sequences, FiniteSets

\* ------------------------------------------------------------- bounds
MaxWidth == 7
MaxHeight == 4
MaxPadWidth == 100
MaxCalls == 2
MaxRepeatWidth == 3
MaxRepeatHeight == 2

\* ------------------------------------------------- program constants
WIDTH == 800
HEIGHT == 480

PALETTE ==
  << <<0, 0, 0>>, <<255, 255, 255>>, <<255, 255, 0>>, <<255, 0, 0>>,
     <<0, 0, 0>>, <<0, 0, 255>>, <<0, 255, 0>> >>

COLOR_INDICES_with_reserved == <<0, 1, 2, 3, 4, 5>>
COLOR_INDICES == <<0, 1, 2, 3, 5, 6>>

\* The number of f.write calls inside the with block.
NumWrites == 16

VARIABLES
  width, height,     \* WIDTH, HEIGHT of this run
  color_indices,     \* COLOR_INDICES of this run
  pc,                \* position in create_calibration_bmp
  idx,               \* enumerate index of the box loop
  temp_buffer,       \* top-down buffer, 3 bytes per pixel (stored B, G, R)
  pixels,            \* bottom-up padded payload
  y,                 \* row index of the conversion loop
  cells,             \* bounds of the boxes drawn so far, in drawing order
  used,              \* palette indices drawn so far, in drawing order
  writes,            \* per pixel: number of times the box loop has written it
  pwrites,           \* per payload byte: number of times the row loop wrote it
  f_open,            \* the handle f of the with block is open
  step,              \* number of f.write calls completed
  file_exists,       \* a file exists at output_path
  file_bytes,        \* its content
  raised,            \* the exception that left the function, or "none"
  reported,          \* the "Calibration BMP created" lines were printed
  calls,             \* number of earlier invocations on the same output_path
  prev_file,         \* the file the last earlier complete invocation left, or <<>>
  \* scripts/generate_manifests.py
  build_dir,         \* generate_manifests: build_dir is given (not None)
  dev_mode,          \* generate_manifests: dev_mode
  build_files,       \* the firmware build outputs that exist under build_dir
  demo_files,        \* the firmware files that exist in the demo directory
  merge,             \* outcome of copy_firmware_to_demo
  manifest,          \* manifest.json as written by this call, or NoManifest
  manifest_dev,      \* manifest-dev.json as written by this call, or NoManifest
  mpc,               \* position in generate_manifests
  result             \* its return value: "none", "True" or "False"

vars == <<width, height, color_indices, pc, idx, temp_buffer, pixels, y, cells,
          used, writes, pwrites, f_open, step, file_exists, file_bytes,
          raised, reported, calls, prev_file, build_dir, dev_mode, build_files,
          demo_files, merge, manifest, manifest_dev, mpc, result>>

bmp_vars == <<width, height, color_indices, pc, idx, temp_buffer, pixels, y, cells,
              used, writes, pwrites, f_open, step, file_exists, file_bytes,
              raised, reported, calls, prev_file>>
mf_vars == <<build_dir, dev_mode, build_files, demo_files, merge, manifest,
             manifest_dev, mpc, result>>

\* ------------------------------------------------------------ geometry
BoxWidth_rounded_up(W) == (W + 2) \div 3
BoxWidth(W) == W \div 3
BoxHeight(H) == H \div 2
RowSize(W) == W * 3
PaddingBytes_no_outer_mod(W) == 4 - (RowSize(W) % 4)
PaddingBytes(W) == (4 - (RowSize(W) % 4)) % 4
PixelDataSize(W, H) == (RowSize(W) + PaddingBytes(W)) * H
FileSize_unpadded(W, H) == 14 + 40 + RowSize(W) * H
FileSize(W, H) == 14 + 40 + PixelDataSize(W, H)

Zeros(n) == [i \in 0 .. n - 1 |-> 0]

\* Bounds of box idx: row and column of the 2 x 3 grid, the last column and
\* the last row absorbing the remainder.
CellBounds_no_remainder(i, W, H) ==
  LET row == i \div 3
      col == i % 3
  IN [x_start |-> col * BoxWidth(W), y_start |-> row * BoxHeight(H),
      x_end |-> (col + 1) * BoxWidth(W), y_end |-> (row + 1) * BoxHeight(H)]
CellBounds(i, W, H) ==
  LET row == i \div 3
      col == i % 3
  IN [x_start |-> col * BoxWidth(W), y_start |-> row * BoxHeight(H),
      x_end |-> IF col < 2 THEN (col + 1) * BoxWidth(W) ELSE W,
      y_end |-> IF row < 1 THEN (row + 1) * BoxHeight(H) ELSE H]

InCell(b, px, py) ==
  /\ b.x_start <= px /\ px < b.x_end
  /\ b.y_start <= py /\ py < b.y_end

\* The byte stored for channel slot c (0, 1, 2) of a pixel of colour rgb:
\* slot 0 gets b, slot 1 gets g, slot 2 gets r.
StoredByte_rgb_order(rgb, c) == rgb[c + 1]
StoredByte(rgb, c) == rgb[3 - c]

\* The buffer after the two nested loops have filled box b with colour rgb.
FillBoxBuffer(buf, b, rgb, W) ==
  [off \in DOMAIN buf |->
     LET p == off \div 3
     IN IF InCell(b, p % W, p \div W) THEN StoredByte(rgb, off % 3)
        ELSE buf[off]]

\* The payload after one iteration of the row loop has copied row yy.
BmpRow_top_down(yy, H) == yy
BmpRow(yy, H) == H - 1 - yy
DstOffset_unpadded(yy, W, H) == BmpRow(yy, H) * RowSize(W)
DstOffset(yy, W, H) == BmpRow(yy, H) * (RowSize(W) + PaddingBytes(W))
CopyRow(px, tmp, yy, W, H) ==
  LET src_offset == yy * W * 3
      dst_offset == DstOffset(yy, W, H)
  IN [o \in DOMAIN px |->
        IF dst_offset <= o /\ o < dst_offset + W * 3
        THEN tmp[src_offset + (o - dst_offset)]
        ELSE px[o]]

\* ---------------------------------------------------------- struct.pack
\* Little-endian encodings; struct.pack raises outside the field's range,
\* which starts at 2^16 and 2^31, beyond every size reached here.
LE16(v) == << v % 256, (v \div 256) % 256 >>
LE32(v) ==
  << v % 256, (v \div 256) % 256, (v \div 65536) % 256, (v \div 16777216) % 256 >>

AsSeq(buf, n) == [i \in 1 .. n |-> buf[i - 1]]

\* The argument of the k-th f.write call (k = 0 .. NumWrites-1).
Chunk(k, W, H, px) ==
  CASE k = 0 -> <<66, 77>>
    [] k = 1 -> LE32(FileSize(W, H))
    [] k = 2 -> LE16(0) \o LE16(0)
    [] k = 3 -> LE32(14 + 40)
    [] k = 4 -> LE32(40)
    [] k = 5 -> LE32(W)
    [] k = 6 -> LE32(H)
    [] k = 7 -> LE16(1)
    [] k = 8 -> LE16(24)
    [] k = 9 -> LE32(0)
    [] k = 10 -> LE32(PixelDataSize(W, H))
    [] k = 11 -> LE32(2835)
    [] k = 12 -> LE32(2835)
    [] k = 13 -> LE32(0)
    [] k = 14 -> LE32(0)
    [] OTHER -> AsSeq(px, PixelDataSize(W, H))

\* ---------------------------------------------------------------- Init
OldContent == <<66, 77, 7>>

\* generate_manifests is not running.
NoManifest == [path |-> "", version |-> "", is_dev |-> FALSE]
ManifestsIdle ==
  /\ build_dir = FALSE
  /\ dev_mode = FALSE
  /\ build_files = {}
  /\ demo_files = {}
  /\ merge = "not_run"
  /\ manifest = NoManifest
  /\ manifest_dev = NoManifest
  /\ mpc = "idle"
  /\ result = "none"

\* The encoder before its first statement, on a canvas of W x H.
InitCanvas(Ws, Hs) ==
  /\ width \in Ws
  /\ height \in Hs
  /\ pc = "start"
  /\ idx = 0
  /\ temp_buffer = <<>>
  /\ pixels = <<>>
  /\ y = 0
  /\ cells = <<>>
  /\ used = <<>>
  /\ writes = <<>>
  /\ pwrites = <<>>
  /\ f_open = FALSE
  /\ step = 0
  /\ \/ file_exists = FALSE /\ file_bytes = <<>>
     \/ file_exists = TRUE /\ file_bytes = OldContent
  /\ raised = "none"
  /\ reported = FALSE
  /\ calls = 0
  /\ prev_file = <<>>

InitRun == InitCanvas(1 .. MaxWidth, 1 .. MaxHeight) /\ ManifestsIdle

Init == InitRun /\ color_indices = COLOR_INDICES

\* COLOR_INDICES is a module global, read when the function runs: a caller may
\* have rebound it to another sequence of palette indices, the empty one included.
ColorSeqs == {<<>>, <<2>>, COLOR_INDICES}
InitAnyColors == InitRun /\ color_indices \in ColorSeqs

\* ------------------------------------------------------------- actions
\* Lines 33-43: the geometry and the allocation of temp_buffer.
Setup ==
  /\ pc = "start"
  /\ pc' = "fill"
  /\ temp_buffer' = Zeros(width * height * 3)
  /\ writes' = Zeros(width * height)
  /\ idx' = 0
  /\ UNCHANGED <<mf_vars, calls, prev_file, width, height, color_indices, pixels, y, cells, used, pwrites,
                 f_open, step, file_exists, file_bytes, raised, reported>>

\* Lines 46-65: one iteration of the box loop.
FillBox ==
  /\ pc = "fill"
  /\ idx < Len(color_indices)
  /\ LET color_idx == color_indices[idx + 1]
         b == CellBounds(idx, width, height)
         rgb == PALETTE[color_idx + 1]
     IN /\ temp_buffer' = FillBoxBuffer(temp_buffer, b, rgb, width)
        /\ writes' = [p \in DOMAIN writes |->
                        IF InCell(b, p % width, p \div width)
                        THEN writes[p] + 1 ELSE writes[p]]
        /\ cells' = Append(cells, b)
        /\ used' = Append(used, color_idx)
  /\ idx' = idx + 1
  /\ UNCHANGED <<mf_vars, calls, prev_file, width, height, color_indices, pc, pixels, y, pwrites, f_open,
                 step, file_exists, file_bytes, raised, reported>>

\* Line 68: the box loop is over; the payload is allocated, zero-filled.
AllocPixels ==
  /\ pc = "fill"
  /\ idx = Len(color_indices)
  /\ pc' = "convert"
  /\ pixels' = Zeros(PixelDataSize(width, height))
  /\ pwrites' = Zeros(PixelDataSize(width, height))
  /\ y' = 0
  /\ UNCHANGED <<mf_vars, calls, prev_file, width, height, color_indices, idx, temp_buffer, cells, used,
                 writes, f_open, step, file_exists, file_bytes, raised, reported>>

\* Lines 69-79: one iteration of the row loop.
ConvertRow ==
  /\ pc = "convert"
  /\ y < height
  /\ pixels' = CopyRow(pixels, temp_buffer, y, width, height)
  /\ pwrites' = [o \in DOMAIN pwrites |->
                   LET dst == DstOffset(y, width, height)
                   IN IF dst <= o /\ o < dst + width * 3
                      THEN pwrites[o] + 1 ELSE pwrites[o]]
  /\ y' = y + 1
  /\ UNCHANGED <<mf_vars, calls, prev_file, width, height, color_indices, pc, idx, temp_buffer, cells, used,
                 writes, f_open, step, file_exists, file_bytes, raised, reported>>

\* Line 84: the content of the file once open(output_path, "wb") has returned:
\* mode "wb" truncates whatever the path held.
OpenedContent_append(old) == old
OpenedContent(old) == <<>>

\* Line 84: open(output_path, "wb") creates or truncates the file.
OpenFile ==
  /\ pc = "convert"
  /\ y = height
  /\ pc' = "write"
  /\ f_open' = TRUE
  /\ file_exists' = TRUE
  /\ file_bytes' = OpenedContent(file_bytes)
  /\ step' = 0
  /\ UNCHANGED <<mf_vars, calls, prev_file, width, height, color_indices, idx, temp_buffer, pixels, y, cells,
                 used, writes, pwrites, raised, reported>>

\* Line 84: open fails (unwritable destination); the error leaves the function.
OpenFail ==
  /\ pc = "convert"
  /\ y = height
  /\ pc' = "raised"
  /\ raised' = "IOError"
  /\ UNCHANGED <<mf_vars, calls, prev_file, width, height, color_indices, idx, temp_buffer, pixels, y, cells,
                 used, writes, pwrites, f_open, step, file_exists, file_bytes,
                 reported>>

\* Lines 86-109: the f.write statements run in the order they are written:
\* the k-th call writes the k-th field.
WriteOrder_metadata_first(k) == IF k < 11 THEN k + 4 ELSE IF k < 15 THEN k - 11 ELSE k
WriteOrder(k) == k

\* Lines 86-109: the next f.write call succeeds.
WriteOk ==
  /\ pc = "write"
  /\ step < NumWrites
  /\ file_bytes' = file_bytes \o Chunk(WriteOrder(step), width, height, pixels)
  /\ step' = step + 1
  /\ UNCHANGED <<mf_vars, calls, prev_file, width, height, color_indices, pc, idx, temp_buffer, pixels, y,
                 cells, used, writes, pwrites, f_open, file_exists, raised,
                 reported>>

\* The handle after the with block is left by an exception.
HandleAfterError_leaked == TRUE
HandleAfterError == FALSE

\* Where control goes when an f.write raises: nothing catches the error, so it
\* leaves the function and the report lines are skipped.
AfterWriteError_swallowed == "print"
AfterWriteError == "raised"

\* Lines 84-109: the next f.write call fails after part of its bytes; the
\* with block releases the handle and the error leaves the function.
WriteFail ==
  /\ pc = "write"
  /\ step < NumWrites
  /\ \E n \in 0 .. Len(Chunk(WriteOrder(step), width, height, pixels)) - 1 :
       file_bytes' =
         file_bytes \o SubSeq(Chunk(WriteOrder(step), width, height, pixels), 1, n)
  /\ f_open' = HandleAfterError
  /\ pc' = AfterWriteError
  /\ raised' = "IOError"
  /\ UNCHANGED <<mf_vars, calls, prev_file, width, height, color_indices, idx, temp_buffer, pixels, y, cells,
                 used, writes, pwrites, step, file_exists, reported>>

\* Line 109 to 111: the with block ends normally and closes the handle.
CloseFile ==
  /\ pc = "write"
  /\ step = NumWrites
  /\ f_open' = FALSE
  /\ pc' = "print"
  /\ UNCHANGED <<mf_vars, calls, prev_file, width, height, color_indices, idx, temp_buffer, pixels, y, cells,
                 used, writes, pwrites, step, file_exists, file_bytes, raised,
                 reported>>

\* Lines 111-114: the report.
PrintReport ==
  /\ pc = "print"
  /\ reported' = TRUE
  /\ pc' = "done"
  /\ UNCHANGED <<mf_vars, calls, prev_file, width, height, color_indices, idx, temp_buffer, pixels, y, cells,
                 used, writes, pwrites, f_open, step, file_exists, file_bytes,
                 raised>>

Next ==
  \/ Setup
  \/ FillBox
  \/ AllocPixels
  \/ ConvertRow
  \/ OpenFile
  \/ OpenFail
  \/ WriteOk
  \/ WriteFail
  \/ CloseFile
  \/ PrintReport

Spec == Init /\ [][Next]_vars

\* A caller invokes create_calibration_bmp again with the same output_path and
\* the same module globals, after the earlier call returned or raised.  The
\* locals of the earlier call are gone; the file on disk stays.
CallAgain ==
  /\ pc \in {"done", "raised"}
  /\ calls < MaxCalls
  /\ calls' = calls + 1
  /\ prev_file' = IF pc = "done" THEN file_bytes ELSE prev_file
  /\ pc' = "start"
  /\ idx' = 0
  /\ temp_buffer' = <<>>
  /\ pixels' = <<>>
  /\ y' = 0
  /\ cells' = <<>>
  /\ used' = <<>>
  /\ writes' = <<>>
  /\ pwrites' = <<>>
  /\ f_open' = FALSE
  /\ step' = 0
  /\ raised' = "none"
  /\ reported' = FALSE
  /\ UNCHANGED <<mf_vars, width, height, color_indices, file_exists, file_bytes>>

InitRepeat ==
  /\ InitCanvas(1 .. MaxRepeatWidth, 1 .. MaxRepeatHeight)
  /\ ManifestsIdle
  /\ color_indices = COLOR_INDICES

NextRepeat ==
  \/ Next
  \/ CallAgain

SpecRepeat == InitRepeat /\ [][NextRepeat]_vars
SpecAnyColors == InitAnyColors /\ [][Next]_vars

\* -------------------------------------------- scripts/generate_manifests.py
MergedBin == "photoframe-firmware-merged.bin"
DevBin == "photoframe-firmware-dev.bin"
\* The three build outputs copy_firmware_to_demo needs.
BuildOutputs == {"bootloader.bin", "partition-table.bin", "photoframe-api.bin"}

\* check_firmware_exists: os.path.exists of the path.
check_firmware_exists(files, name) == name \in files

\* Lines 135-138: the dev manifest names the dev firmware when it exists in the
\* demo directory, the merged firmware otherwise.
DevFirmwareFile_no_fallback(files) == DevBin
DevFirmwareFile(files) == IF DevBin \in files THEN DevBin ELSE MergedBin

\* generate_manifest: the part path, version and flavour written to the file.
generate_manifest(version, firmware_file, is_dev) ==
  [path |-> firmware_file, version |-> version, is_dev |-> is_dev]

InitManifests ==
  /\ InitCanvas({WIDTH}, {HEIGHT})
  /\ color_indices = COLOR_INDICES
  /\ build_dir \in BOOLEAN
  /\ dev_mode \in BOOLEAN
  /\ build_files \in SUBSET BuildOutputs
  /\ demo_files \in SUBSET {MergedBin, DevBin}
  /\ merge = "not_run"
  /\ manifest = NoManifest
  /\ manifest_dev = NoManifest
  /\ mpc = "start"
  /\ result = "none"

\* Lines 107-111: the demo directory and the stable version.
ManifestsStart ==
  /\ mpc = "start"
  /\ mpc' = "copy"
  /\ UNCHANGED <<bmp_vars, build_dir, dev_mode, build_files, demo_files, merge,
                 manifest, manifest_dev, result>>

\* Lines 114-116 and 41-43: a build output is missing; return False.
CopyMissingInputs ==
  /\ mpc = "copy"
  /\ build_dir
  /\ build_files # BuildOutputs
  /\ merge' = "missing_inputs"
  /\ result' = "False"
  /\ mpc' = "returned"
  /\ UNCHANGED <<bmp_vars, build_dir, dev_mode, build_files, demo_files, manifest,
                 manifest_dev>>

\* Lines 114-115 and 46-76: esptool writes the merged firmware to the demo directory.
MergeOk ==
  /\ mpc = "copy"
  /\ build_dir
  /\ build_files = BuildOutputs
  /\ demo_files' = demo_files \cup {MergedBin}
  /\ merge' = "ok"
  /\ mpc' = "check"
  /\ UNCHANGED <<bmp_vars, build_dir, dev_mode, build_files, manifest, manifest_dev,
                 result>>

\* Lines 114-116 and 77-79: esptool exits non-zero; return False.
MergeFail ==
  /\ mpc = "copy"
  /\ build_dir
  /\ build_files = BuildOutputs
  /\ merge' = "failed"
  /\ result' = "False"
  /\ mpc' = "returned"
  /\ UNCHANGED <<bmp_vars, build_dir, dev_mode, build_files, demo_files, manifest,
                 manifest_dev>>

\* Line 114: no build_dir, nothing is copied.
SkipCopy ==
  /\ mpc = "copy"
  /\ ~build_dir
  /\ mpc' = "check"
  /\ UNCHANGED <<bmp_vars, build_dir, dev_mode, build_files, demo_files, merge,
                 manifest, manifest_dev, result>>

\* Lines 119-123: the merged firmware is not in the demo directory; return False.
FirmwareMissing ==
  /\ mpc = "check"
  /\ ~check_firmware_exists(demo_files, MergedBin)
  /\ result' = "False"
  /\ mpc' = "returned"
  /\ UNCHANGED <<bmp_vars, build_dir, dev_mode, build_files, demo_files, merge,
                 manifest, manifest_dev>>

\* Lines 119-127: the merged firmware exists; manifest.json is written.
WriteStable ==
  /\ mpc = "check"
  /\ check_firmware_exists(demo_files, MergedBin)
  /\ manifest' = generate_manifest("stable", MergedBin, FALSE)
  /\ mpc' = "dev"
  /\ UNCHANGED <<bmp_vars, build_dir, dev_mode, build_files, demo_files, merge,
                 manifest_dev, result>>

\* Lines 130-143: dev mode; manifest-dev.json is written; return True.
WriteDev ==
  /\ mpc = "dev"
  /\ dev_mode
  /\ manifest_dev' = generate_manifest("dev", DevFirmwareFile(demo_files), TRUE)
  /\ result' = "True"
  /\ mpc' = "returned"
  /\ UNCHANGED <<bmp_vars, build_dir, dev_mode, build_files, demo_files, merge,
                 manifest>>

\* Lines 130 and 143: not dev mode; return True.
ReturnStableOnly ==
  /\ mpc = "dev"
  /\ ~dev_mode
  /\ result' = "True"
  /\ mpc' = "returned"
  /\ UNCHANGED <<bmp_vars, build_dir, dev_mode, build_files, demo_files, merge,
                 manifest, manifest_dev>>

NextManifests ==
  \/ ManifestsStart
  \/ CopyMissingInputs
  \/ MergeOk
  \/ MergeFail
  \/ SkipCopy
  \/ FirmwareMissing
  \/ WriteStable
  \/ WriteDev
  \/ ReturnStableOnly

SpecManifests == InitManifests /\ [][NextManifests]_vars

\* ------------------------------------------- the file as a whole, in closed form
\* The final content of temp_buffer[off]: the colour of the last box drawn over
\* the pixel, or the zero the buffer was allocated with.
TempByteAt(cis, W, H, off) ==
  LET p == off \div 3
      hits == {i \in 0 .. Len(cis) - 1 : InCell(CellBounds(i, W, H), p % W, p \div W)}
  IN IF hits = {} THEN 0
     ELSE LET last == CHOOSE i \in hits : \A j \in hits : j <= i
          IN StoredByte(PALETTE[cis[last + 1] + 1], off % 3)

\* The final content of pixels[o]: the byte of the row copied there, or the zero
\* of the allocation.
PixelsByteAt(cis, W, H, o) ==
  LET rows == {yy \in 0 .. H - 1 :
                 DstOffset(yy, W, H) <= o /\ o < DstOffset(yy, W, H) + W * 3}
  IN IF rows = {} THEN 0
     ELSE LET yy == CHOOSE r \in rows : \A q \in rows : q <= r
          IN TempByteAt(cis, W, H, yy * W * 3 + (o - DstOffset(yy, W, H)))

\* The 54 bytes of the first 15 f.write calls.
HeaderBytes(W, H) ==
  Chunk(0, W, H, <<>>) \o Chunk(1, W, H, <<>>) \o Chunk(2, W, H, <<>>)
  \o Chunk(3, W, H, <<>>) \o Chunk(4, W, H, <<>>) \o Chunk(5, W, H, <<>>)
  \o Chunk(6, W, H, <<>>) \o Chunk(7, W, H, <<>>) \o Chunk(8, W, H, <<>>)
  \o Chunk(9, W, H, <<>>) \o Chunk(10, W, H, <<>>) \o Chunk(11, W, H, <<>>)
  \o Chunk(12, W, H, <<>>) \o Chunk(13, W, H, <<>>) \o Chunk(14, W, H, <<>>)

\* Byte i (from 0) of the file a complete run leaves.
FileByteAt(cis, W, H, i) ==
  IF i < Len(HeaderBytes(W, H)) THEN HeaderBytes(W, H)[i + 1]
  ELSE PixelsByteAt(cis, W, H, i - Len(HeaderBytes(W, H)))

\* --------------------------------------------------- a standard bitmap reader
U32At(f, off) ==
  f[off + 1] + 256 * f[off + 2] + 65536 * f[off + 3] + 16777216 * f[off + 4]

\* Row stride of a 24-bit bitmap: rows are padded to 32-bit words.
StdStride(W) == ((W * 24 + 31) \div 32) * 4

\* Offset in the file of pixel (px, py) of a bottom-up 24-bit bitmap.
PixelOffset(W, H, px, py) == 54 + (H - 1 - py) * StdStride(W) + px * 3

\* (R, G, B) of pixel (px, py): the file holds B, G, R.
DecodedPixel(f, W, H, px, py) ==
  LET o == PixelOffset(W, H, px, py)
  IN << f[o + 3], f[o + 2], f[o + 1] >>

\* The same reading of the file of the reference run, WIDTH x HEIGHT.
RefDecoded(px, py) ==
  LET o == PixelOffset(WIDTH, HEIGHT, px, py)
  IN << FileByteAt(COLOR_INDICES, WIDTH, HEIGHT, o + 2),
        FileByteAt(COLOR_INDICES, WIDTH, HEIGHT, o + 1),
        FileByteAt(COLOR_INDICES, WIDTH, HEIGHT, o) >>

Black == <<0, 0, 0>>
Yellow == <<255, 255, 0>>
Red == <<255, 0, 0>>
Green == <<0, 255, 0>>

FillComplete == Len(cells) = Len(COLOR_INDICES)
ConversionComplete == pc \in {"convert", "write", "print", "done", "raised"} /\ y = height
FileComplete == pc \in {"print", "done"}

CellsAt(px, py) == {i \in 1 .. Len(cells) : InCell(cells[i], px, py)}

\* The closed form is the file the step-by-step run leaves.
ClosedFormAgrees ==
  FileComplete =>
    /\ Len(file_bytes) = FileSize(width, height)
    /\ \A i \in 1 .. Len(file_bytes) :
         file_bytes[i] = FileByteAt(color_indices, width, height, i - 1)

\* ------------------------------------------------------------------ claims

\* C1: every pixel position of the canvas lies in the bounds of exactly one cell
\* of the grid the box loop builds: cells never overlap and stay inside the
\* canvas, once all six are drawn they cover it, and the fill writes no pixel
\* more than once (and, when complete, every pixel exactly once).
C1_ExactCover ==
  /\ \A i \in 1 .. Len(cells) :
       /\ 0 <= cells[i].x_start /\ cells[i].x_start <= cells[i].x_end
       /\ cells[i].x_end <= width
       /\ 0 <= cells[i].y_start /\ cells[i].y_start <= cells[i].y_end
       /\ cells[i].y_end <= height
  /\ \A px \in 0 .. width - 1, py \in 0 .. height - 1 :
       /\ Cardinality(CellsAt(px, py)) <= 1
       /\ FillComplete => Cardinality(CellsAt(px, py)) = 1
  /\ \A p \in DOMAIN writes :
       /\ writes[p] = Cardinality(CellsAt(p % width, p \div width))
       /\ writes[p] <= 1
       /\ FillComplete => writes[p] = 1

C1_Witness ==
  /\ pc = "convert" /\ FillComplete
  /\ width % 3 = 2 /\ height % 2 = 1 /\ width > 3 /\ height >= 3
  /\ \A p \in DOMAIN writes : writes[p] = 1

\* C2: remainder absorption.  With cell_width = width // 3 and cell_height =
\* height // 2, a cell outside the last column spans [col*cell_width,
\* (col+1)*cell_width) and a cell outside the last row spans [row*cell_height,
\* (row+1)*cell_height); the last column ends at width and the last row at
\* height, larger than an interior cell by at most 2 (resp. 1) pixels.  For
\* 800x480 the interior cell is 266x240 and the last column 268 wide.
C2_RemainderAbsorption ==
  /\ \A i \in 1 .. Len(cells) :
       LET row == (i - 1) \div 3
           col == (i - 1) % 3
           cell_width == width \div 3
           cell_height == height \div 2
           b == cells[i]
       IN /\ b.x_start = col * cell_width
          /\ b.y_start = row * cell_height
          /\ col < 2 => b.x_end = (col + 1) * cell_width
          /\ row < 1 => b.y_end = (row + 1) * cell_height
          /\ col = 2 => /\ b.x_end = width
                        /\ (b.x_end - b.x_start) - cell_width \in 0 .. 3 - 1
          /\ row = 1 => /\ b.y_end = height
                        /\ (b.y_end - b.y_start) - cell_height \in 0 .. 2 - 1
  /\ LET b0 == CellBounds(0, WIDTH, HEIGHT)
         b2 == CellBounds(2, WIDTH, HEIGHT)
         b5 == CellBounds(5, WIDTH, HEIGHT)
     IN /\ b0.x_end - b0.x_start = 266 /\ b0.y_end - b0.y_start = 240
        /\ b2.x_end - b2.x_start = 268 /\ b2.x_end = 800
        /\ b5.y_end - b5.y_start = 240 /\ b5.y_end = 480

C2_Witness ==
  /\ FillComplete
  /\ width % 3 = 2 /\ width > 3 /\ height % 2 = 1 /\ height >= 3
  /\ cells[3].x_end - cells[3].x_start = (width \div 3) + 2
  /\ cells[4].y_end - cells[4].y_start = (height \div 2) + 1

\* C3: round trip.  Reading the complete file as a bottom-up 24-bit bitmap
\* gives, for every pixel, the (R, G, B) triple of the palette entry drawn in
\* the cell that contains the pixel.
C3_RoundTrip ==
  FileComplete =>
    \A px \in 0 .. width - 1, py \in 0 .. height - 1 :
      /\ CellsAt(px, py) # {}
      /\ \A i \in CellsAt(px, py) :
           DecodedPixel(file_bytes, width, height, px, py) = PALETTE[used[i] + 1]

C3_Witness ==
  /\ pc = "done"
  /\ width >= 6 /\ height >= 3 /\ PaddingBytes(width) # 0
  /\ DecodedPixel(file_bytes, width, height, width - 1, 0) = Yellow
  /\ DecodedPixel(file_bytes, width, height, 0, height - 1) = Red

\* C4: in the reference run (800x480, colours black, white, yellow, red, blue,
\* green, 2 x 3 row-major) pixel (0,0) decodes to black, (799,0) to yellow,
\* (0,479) to red and (799,479) to green.  The reference file is read through
\* its closed form, which every complete run of the model agrees with; the
\* corners of every run with all six cells non-empty decode the same way.
C4_ReferenceCorners ==
  /\ RefDecoded(0, 0) = Black
  /\ RefDecoded(799, 0) = Yellow
  /\ RefDecoded(0, 479) = Red
  /\ RefDecoded(799, 479) = Green
  /\ ClosedFormAgrees
  /\ (FileComplete /\ width >= 3 /\ height >= 2) =>
       /\ DecodedPixel(file_bytes, width, height, 0, 0) = Black
       /\ DecodedPixel(file_bytes, width, height, width - 1, 0) = Yellow
       /\ DecodedPixel(file_bytes, width, height, 0, height - 1) = Red
       /\ DecodedPixel(file_bytes, width, height, width - 1, height - 1) = Green

C4_Witness ==
  /\ pc = "done" /\ reported
  /\ width >= 3 /\ height >= 2
  /\ used = COLOR_INDICES
  /\ DecodedPixel(file_bytes, width, height, 0, 0) = RefDecoded(0, 0)
  /\ DecodedPixel(file_bytes, width, height, width - 1, height - 1)
       = RefDecoded(WIDTH - 1, HEIGHT - 1)

\* C5: after a successful write the file-size field of the header equals
\* 54 + padded_row_size*height and equals the number of bytes emitted
\* (14 header + 40 metadata + payload); for 800x480 it is 1,152,054.
C5_DeclaredSizeIsActualSize ==
  /\ FileComplete =>
       LET padding == (4 - ((width * 3) % 4)) % 4
           padded_row_size == width * 3 + padding
       IN /\ U32At(file_bytes, 2) = 54 + padded_row_size * height
          /\ U32At(file_bytes, 2) = Len(file_bytes)
          /\ Len(file_bytes) = 14 + 40 + Len(Chunk(NumWrites - 1, width, height, pixels))
  /\ FileSize(WIDTH, HEIGHT) = 1152054
  /\ U32At(HeaderBytes(WIDTH, HEIGHT), 2) = 1152054

C5_Witness ==
  /\ pc = "done" /\ step = NumWrites /\ ~f_open
  /\ PaddingBytes(width) # 0 /\ height >= 2
  /\ U32At(file_bytes, 2) = Len(file_bytes)

\* C6: for every positive width the padding is in 0..3 and makes the row a
\* multiple of 4 bytes; when width*3 mod 4 # 0 (width = 79) it is non-zero,
\* and the payload and the file size include it once per row.
C6_RowPadding ==
  /\ \A W \in 1 .. MaxPadWidth :
       /\ PaddingBytes(W) = (4 - ((W * 3) % 4)) % 4
       /\ 0 <= PaddingBytes(W) /\ PaddingBytes(W) < 4
       /\ (W * 3 + PaddingBytes(W)) % 4 = 0
       /\ (W * 3) % 4 # 0 => PaddingBytes(W) > 0
  /\ PaddingBytes(79) = 3
  /\ \A H \in 1 .. MaxHeight :
       /\ PixelDataSize(79, H) = 79 * 3 * H + 3 * H
       /\ FileSize(79, H) = 54 + 79 * 3 * H + 3 * H
  /\ (pc \notin {"start", "fill"}) =>
       Cardinality(DOMAIN pixels) = width * 3 * height + PaddingBytes(width) * height
  /\ FileComplete =>
       /\ Len(file_bytes) = 54 + width * 3 * height + PaddingBytes(width) * height
       /\ U32At(file_bytes, 34) = width * 3 * height + PaddingBytes(width) * height

C6_Witness ==
  /\ pc = "done"
  /\ (width * 3) % 4 # 0 /\ height >= 2
  /\ Len(file_bytes) > 54 + width * 3 * height

\* C7: logical row yy of the top-down buffer occupies file row height-1-yy of
\* the payload, the padding bytes after the width*3 colour bytes of every row
\* are zero, and every colour byte is assigned exactly once (from one row), in
\* the buffer and in the payload the file holds.
C7_BottomUpRows ==
  /\ \A o \in DOMAIN pwrites : pwrites[o] <= 1
  /\ ConversionComplete =>
       LET padded_row_size == StdStride(width)
       IN /\ \A yy \in 0 .. height - 1 :
               /\ \A c \in 0 .. width * 3 - 1 :
                    /\ pixels[(height - 1 - yy) * padded_row_size + c]
                         = temp_buffer[yy * width * 3 + c]
                    /\ pwrites[(height - 1 - yy) * padded_row_size + c] = 1
               /\ \A c \in width * 3 .. padded_row_size - 1 :
                    /\ pixels[(height - 1 - yy) * padded_row_size + c] = 0
                    /\ pwrites[(height - 1 - yy) * padded_row_size + c] = 0
          /\ DOMAIN pixels = 0 .. padded_row_size * height - 1
  /\ FileComplete =>
       /\ Len(file_bytes) = 54 + Cardinality(DOMAIN pixels)
       /\ \A o \in DOMAIN pixels : file_bytes[54 + o + 1] = pixels[o]

C7_Witness ==
  /\ pc = "done"
  /\ height >= 3 /\ width >= 3 /\ PaddingBytes(width) = 3
  /\ pixels[0] = temp_buffer[(height - 1) * width * 3]
  /\ temp_buffer[0] # temp_buffer[(height - 1) * width * 3 + 2]

C9_HandleReleased ==
  /\ f_open => pc = "write"
  /\ pc \in {"print", "done", "raised"} => ~f_open

C9_Witness ==
  /\ pc = "raised" /\ raised = "IOError"
  /\ step > 3 /\ Len(file_bytes) > 14
  /\ ~f_open

\* C10: the reserved palette index 4 is never used to colour a cell although
\* the palette holds an entry for it; the six cells get the distinct indices
\* 0, 1, 2, 3, 5, 6 in this order.
C10_ReservedNeverUsed ==
  /\ Len(PALETTE) = 7
  /\ \A i \in 1 .. Len(used) : used[i] # 4 /\ used[i] + 1 \in DOMAIN PALETTE
  /\ \A i, j \in 1 .. Len(used) : i # j => used[i] # used[j]
  /\ Len(used) = Len(cells)
  /\ \A i \in 1 .. Len(used) : used[i] = <<0, 1, 2, 3, 5, 6>>[i]
  /\ (pc \notin {"start", "fill"}) => used = <<0, 1, 2, 3, 5, 6>>

C10_Witness ==
  /\ pc = "done"
  /\ used = <<0, 1, 2, 3, 5, 6>>
  /\ Len(cells) = 6

\* C11: two invocations with identical inputs leave byte-identical files: a
\* complete file equals the file the earlier complete invocation left on the
\* same path, and is the function of width, height and the colour sequence
\* alone that the closed form gives, whatever the path held before (nothing, an
\* unrelated file, an earlier output, or the partial file of a failed call).
C11_Idempotent ==
  FileComplete =>
    /\ prev_file # <<>> => file_bytes = prev_file
    /\ file_bytes = [i \in 1 .. FileSize(width, height) |->
                       FileByteAt(color_indices, width, height, i - 1)]

C11_Witness ==
  /\ pc = "done" /\ calls = 2
  /\ prev_file # <<>>
  /\ file_bytes = prev_file
  /\ Len(file_bytes) > 54

\* C12: an I/O failure of open or of any write is surfaced with no retry, and
\* success is never claimed for a failed call: the report is printed only after
\* all header, metadata and payload writes and the close, so when the call
\* ends either the complete, correctly sized file exists and was reported, or
\* the call has raised, reported nothing and does nothing more.
C12_NoSuccessAfterFailure ==
  /\ reported =>
       /\ pc = "done" /\ raised = "none"
       /\ step = NumWrites /\ ~f_open /\ file_exists
       /\ Len(file_bytes) = 14 + 40 + PixelDataSize(width, height)
       /\ U32At(file_bytes, 2) = Len(file_bytes)
       /\ \A o \in DOMAIN pixels : file_bytes[54 + o + 1] = pixels[o]
  /\ raised # "none" => raised = "IOError" /\ pc = "raised" /\ ~reported
  /\ pc = "raised" => raised = "IOError" /\ ~ENABLED Next
  /\ pc = "done" => reported
  /\ (~ENABLED Next) => pc \in {"done", "raised"}

C12_Witness ==
  /\ pc = "raised" /\ raised = "IOError"
  /\ step = NumWrites - 1
  /\ Len(file_bytes) > 54 /\ Len(file_bytes) < FileSize(width, height)
  /\ ~reported /\ ~ENABLED Next

\* C13: the file is emitted in the order file header (14 bytes), metadata block
\* (40 bytes), payload, with nothing in between: whatever has been written is a
\* prefix of the complete file; when the payload write starts exactly 54 bytes
\* have been emitted, which is the payload-offset field; the payload-size field
\* equals the number of bytes emitted after them, padded_row_size*height.
FileOpened == pc \in {"write", "print", "done"} \/ (pc = "raised" /\ step > 0)

C13_HeaderMetadataPayload ==
  /\ FileOpened =>
       /\ Len(file_bytes) <= FileSize(width, height)
       /\ \A i \in 1 .. Len(file_bytes) :
            file_bytes[i] = FileByteAt(color_indices, width, height, i - 1)
       /\ Len(file_bytes) > 54 => step >= NumWrites - 1
       /\ Len(file_bytes) > 14 => step >= 4
  /\ (pc = "write" /\ step = 4) => Len(file_bytes) = 14
  /\ (pc = "write" /\ step = NumWrites - 1) =>
       /\ Len(file_bytes) = 54
       /\ U32At(file_bytes, 10) = 54
       /\ U32At(file_bytes, 14) = 40
       /\ SubSeq(file_bytes, 1, 2) = <<66, 77>>
  /\ FileComplete =>
       /\ U32At(file_bytes, 10) = 54
       /\ U32At(file_bytes, 34) = Len(file_bytes) - 54
       /\ U32At(file_bytes, 34) = StdStride(width) * height

C13_Witness ==
  /\ pc = "write" /\ step = NumWrites - 1
  /\ Len(file_bytes) = 54
  /\ U32At(file_bytes, 10) = Len(file_bytes)
  /\ U32At(file_bytes, 34) = StdStride(width) * height
  /\ height >= 2 /\ PaddingBytes(width) # 0

\* C14: generate_manifests writes a manifest only if the firmware file its part
\* path names exists in the demo directory; when the merge step fails (missing
\* build outputs or a failing esptool) or the merged firmware is absent it
\* returns False with neither manifest written; manifest-dev.json is written
\* in dev mode only and names the dev firmware when that exists, the merged
\* firmware otherwise.
C14_ManifestNamesExistingFirmware ==
  /\ manifest # NoManifest =>
       /\ manifest.path = MergedBin
       /\ manifest.path \in demo_files
  /\ manifest_dev # NoManifest =>
       /\ dev_mode
       /\ manifest_dev.path \in demo_files
       /\ DevBin \in demo_files => manifest_dev.path = DevBin
       /\ DevBin \notin demo_files => manifest_dev.path = MergedBin
  /\ merge \in {"failed", "missing_inputs"} =>
       /\ mpc = "returned" /\ result = "False"
       /\ manifest = NoManifest /\ manifest_dev = NoManifest
  /\ (mpc = "returned" /\ MergedBin \notin demo_files) =>
       /\ result = "False"
       /\ manifest = NoManifest /\ manifest_dev = NoManifest
  /\ result = "False" => manifest = NoManifest /\ manifest_dev = NoManifest
  /\ result = "True" =>
       /\ manifest # NoManifest
       /\ dev_mode <=> manifest_dev # NoManifest

C14_Witness ==
  /\ mpc = "returned" /\ result = "True"
  /\ build_dir /\ merge = "ok" /\ dev_mode
  /\ DevBin \notin demo_files
  /\ manifest.path = MergedBin
  /\ manifest_dev.path = MergedBin

====
